---- MODULE Spec2Model ----
(***************************************************************************)
(* Fair Health benchmark lookup: the /lookup handler of app/main.py and    *)
(* the spreadsheet ingestion of scripts/excel_to_sqlite.py.                *)
(*                                                                         *)
(* Text is a sequence of one-character strings, so that strip, the         *)
(* trailing ".0" rule and the product sort are computed, not assumed.      *)
(* An optional value (Python None / SQL NULL) is a sequence of length 0,   *)
(* a present value x is <<x>>.                                             *)
(***************************************************************************)
EXTENDS Integers, Sequences, FiniteSets, TLC

VARIABLES
    dbFile,          \* DB_PATH.exists()
    readOnly,        \* the database file cannot be written
    hasRates,        \* table allowed_amounts exists
    allowed_amounts, \* its rows, in rowid order
    hasLog,          \* table lookup_log exists
    lookup_log,      \* its rows, in id order
    request,         \* the /lookup request served (None before)
    response,        \* its response (None before)
    connLookup,      \* the connection of the request: "none", "open", "closed"
    sources,         \* the .xlsx files of data/source, sorted by name
    buildStatus,     \* build_database: "idle", "done", "raised"
    connBuild,       \* its connection: "none", "open", "closed"
    builds,          \* completed runs of build_database
    cellIn,          \* normalizer input: a raw code cell and a raw modifier cell
    cellOut          \* normalizer output for cellIn (None before)

vars == <<dbFile, readOnly, hasRates, allowed_amounts, hasLog, lookup_log,
          request, response, connLookup, sources, buildStatus, connBuild,
          builds, cellIn, cellOut>>

lookupVars == <<request, response, connLookup>>
storeVars == <<dbFile, readOnly, hasRates, allowed_amounts, hasLog, lookup_log>>
buildVars == <<sources, buildStatus, connBuild, builds>>
normVars == <<cellIn, cellOut>>

(***************************************************************************)
(* Bounds                                                                  *)
(***************************************************************************)
MaxRows == 2
MaxCodes == 2
MaxFiles == 2
MaxFileRows == 1
MaxBuilds == 2
MaxCellLen == 5

(***************************************************************************)
(* Text                                                                    *)
(***************************************************************************)
None == <<>>
Some(x) == <<x>>

\* The characters the model uses, in code point order (Python compares str
\* by code point).
CodePointOrder ==
    <<" ", "%", ".", "0", "1", "2", "3", "4", "5", "6", "7", "8", "9",
      "A", "B", "C", "D", "E", "F", "G", "H", "I", "J", "K", "L", "M",
      "N", "O", "P", "Q", "R", "S", "T", "U", "V", "W", "X", "Y", "Z", "_",
      "a", "b", "c", "d", "e", "f", "g", "h", "i", "j", "k", "l", "m",
      "n", "o", "p", "q", "r", "s", "t", "u", "v", "w", "x", "y", "z">>

Ord(c) == CHOOSE i \in 1..Len(CodePointOrder) : CodePointOrder[i] = c

IsSpace(c) == c = " "

RECURSIVE LStrip(_)
LStrip(s) == IF s # <<>> /\ IsSpace(Head(s)) THEN LStrip(Tail(s)) ELSE s

RECURSIVE RStrip(_)
RStrip(s) ==
    IF s # <<>> /\ IsSpace(s[Len(s)]) THEN RStrip(SubSeq(s, 1, Len(s) - 1)) ELSE s

\* str.strip() forgotten: the text as given
Strip_omitted(s) == s

\* str.strip()
Strip(s) == RStrip(LStrip(s))

\* a < b for str
RECURSIVE StrLess(_, _)
StrLess(a, b) ==
    IF b = <<>> THEN FALSE
    ELSE IF a = <<>> THEN TRUE
    ELSE IF Head(a) = Head(b) THEN StrLess(Tail(a), Tail(b))
    ELSE Ord(Head(a)) < Ord(Head(b))

\* `x.strip() if x else None`
StripOrNone(x) == IF x = None \/ x[1] = <<>> THEN None ELSE Some(Strip(x[1]))

\* truth value of an optional str: None and "" are false
Truthy(x) == x # None /\ x[1] # <<>>

(***************************************************************************)
(* Literals                                                                *)
(***************************************************************************)
T_empty == <<>>
T_99213 == <<"9", "9", "2", "1", "3">>
T_99214 == <<"9", "9", "2", "1", "4">>
T_25 == <<"2", "5">>
T_TC == <<"T", "C">>
T_PPO == <<"P", "P", "O">>
T_HMO == <<"H", "M", "O">>

\* Spreadsheet cell values: text, whole numbers read as int or as float, and
\* the empty cell (NaN).
TextCell(s) == [k |-> "str", s |-> s]
IntCell(n) == [k |-> "int", n |-> n]
FloatCell(n) == [k |-> "float", n |-> n]
NaNCell == [k |-> "nan"]

PercentileCols == {"50th", "60th", "70th", "75th", "80th", "85th", "90th", "95th"}
KeyCols == {"geozip", "code", "modifier", "product", "description", "source_file"}

(***************************************************************************)
(* The store: rows of allowed_amounts as build_database writes them        *)
(***************************************************************************)
RateRow(g, c, m, p, v80) ==
    [f \in KeyCols \cup PercentileCols |->
        CASE f = "geozip" -> g
          [] f = "code" -> c
          [] f = "modifier" -> m
          [] f = "product" -> p
          [] f = "description" -> TextCell(<<"E", "M">>)
          [] f = "source_file" -> "rates.xlsx"
          [] f = "80th" -> v80
          [] OTHER -> FloatCell(100)]

\* The rows the lookup model draws its store from.
RateRows ==
    { RateRow(75001, T_99213, None, T_PPO, FloatCell(120)),
      RateRow(75001, T_99213, Some(T_25), T_PPO, FloatCell(150)),
      RateRow(75001, T_99213, Some(T_TC), T_PPO, FloatCell(120)),
      RateRow(75001, T_99213, None, T_HMO, FloatCell(120)),
      RateRow(75001, T_99213, Some(T_25), T_HMO, FloatCell(150)),
      RateRow(75001, T_99213, None, T_empty, FloatCell(120)),
      RateRow(75001, T_99213, Some(T_PPO), T_25, FloatCell(150)),
      RateRow(75001, T_99214, None, T_PPO, FloatCell(120)),
      RateRow(75002, T_99213, None, T_PPO, FloatCell(150)) }

SeqsUpTo(S, n) == UNION { [1..k -> S] : k \in 0..n }

Tables == SeqsUpTo(RateRows, MaxRows)

(***************************************************************************)
(* /lookup requests                                                        *)
(***************************************************************************)
Geozips == {75001, 75002}
RawCodes == { T_99213, <<" ">> \o T_99214 \o <<" ">> }
RawModifiers == { None, Some(<<" ">>), Some(<<" ">> \o T_25) }
RawProducts == { None, Some(T_PPO \o <<" ">>), Some(T_HMO) }

Requests ==
    [geozip : Geozips,
     code : SeqsUpTo(RawCodes, MaxCodes) \ {<<>>},
     modifier : RawModifiers,
     product : RawProducts]

(***************************************************************************)
(* lookup (app/main.py)                                                    *)
(***************************************************************************)
\* SQL `column = ?`: never true of a NULL column
SqlEq(col, v) == col # None /\ col[1] = v

\* params_base, with the product appended when a product filter is given
params_base(geozip, code_clean, product_clean) ==
    <<geozip, code_clean>>
        \o (IF Truthy(product_clean) THEN <<product_clean[1]>> ELSE <<>>)

\* The first SELECT: WHERE geozip = ? AND code = ? AND modifier = ?
\* {product_clause}, bound in order to params_base + [modifier_clean].
modifier_rows(table, geozip, code_clean, modifier_clean, product_clean) ==
    IF ~Truthy(modifier_clean) THEN <<>>
    ELSE
        LET params == params_base(geozip, code_clean, product_clean)
                          \o <<modifier_clean[1]>>
            Match(r) ==
                /\ r.geozip = params[1]
                /\ r.code = params[2]
                /\ SqlEq(r.modifier, params[3])
                /\ Truthy(product_clean) => r.product = params[4]
        IN SelectSeq(table, Match)

\* The second SELECT: WHERE geozip = ? AND code = ? AND (modifier IS NULL OR
\* modifier = '') {product_clause}, bound to params_base.
base_rows(table, geozip, code_clean, product_clean) ==
    LET params == params_base(geozip, code_clean, product_clean)
        Match(r) ==
            /\ r.geozip = params[1]
            /\ r.code = params[2]
            /\ (r.modifier = None \/ r.modifier = Some(T_empty))
            /\ Truthy(product_clean) => r.product = params[3]
    IN SelectSeq(table, Match)

\* {r["product"]: dict(r) for r in rows}: a later row replaces an earlier one
by_product(rows) ==
    LET Keys == { rows[i].product : i \in DOMAIN rows }
        Last(p) == CHOOSE i \in DOMAIN rows :
                       /\ rows[i].product = p
                       /\ \A j \in DOMAIN rows : rows[j].product = p => j <= i
    IN [p \in Keys |-> rows[Last(p)]]

\* the products in descending order (sorted(..., reverse=True))
RECURSIVE sorted_products_reversed(_)
sorted_products_reversed(S) ==
    IF S = {} THEN <<>>
    ELSE LET m == CHOOSE x \in S : \A y \in S : y = x \/ StrLess(y, x)
         IN <<m>> \o sorted_products_reversed(S \ {m})

\* sorted(products_seen, key=lambda x: "" if x is None else str(x))
RECURSIVE sorted_products(_)
sorted_products(S) ==
    IF S = {} THEN <<>>
    ELSE LET m == CHOOSE x \in S : \A y \in S : y = x \/ StrLess(x, y)
         IN <<m>> \o sorted_products(S \ {m})

\* row["match_type"] = ...
WithMatchType(row, mt) ==
    [f \in DOMAIN row \cup {"match_type"} |->
        IF f = "match_type" THEN mt ELSE row[f]]

\* the no-match entry
Placeholder(code_clean, product_clean) ==
    [f \in {"code", "product", "description", "match_type"} \cup PercentileCols |->
        CASE f = "code" -> code_clean
          [] f = "product" ->
                IF Truthy(product_clean) THEN product_clean[1] ELSE T_empty
          [] f = "description" -> TextCell(T_empty)
          [] f = "match_type" -> "No match found"
          [] OTHER -> TextCell(T_empty)]

\* the row log_lookup would insert if success were always passed as 1
LogEntry_always_success(geozip, code, modifier, product, match_type, success) ==
    [geozip |-> geozip, code |-> code, modifier |-> modifier,
     product |-> product, match_type |-> match_type, success |-> 1]

\* the row log_lookup inserts (lookup_time is the clock's and is left out)
LogEntry(geozip, code, modifier, product, match_type, success) ==
    [geozip |-> geozip, code |-> code, modifier |-> modifier,
     product |-> product, match_type |-> match_type, success |-> success]

\* the choice for one product with the base tag not depending on the modifier
select_row_one_base_tag(p, modifier_clean, modifier_by_product, base_by_product) ==
    IF Truthy(modifier_clean) /\ p \in DOMAIN modifier_by_product
    THEN WithMatchType(modifier_by_product[p], "Modifier-specific rate")
    ELSE IF p \in DOMAIN base_by_product
    THEN WithMatchType(base_by_product[p], "Base rate (no modifier)")
    ELSE WithMatchType(modifier_by_product[p], "Modifier-specific rate")

\* The choice for one product p (the chain of lines 164-182).
select_row(p, modifier_clean, modifier_by_product, base_by_product) ==
    IF Truthy(modifier_clean) /\ p \in DOMAIN modifier_by_product
    THEN WithMatchType(modifier_by_product[p], "Modifier-specific rate")
    ELSE IF p \in DOMAIN base_by_product
    THEN WithMatchType(base_by_product[p],
            IF ~Truthy(modifier_clean) THEN "Base rate (no modifier)"
            ELSE "Base rate (modifier not on file)")
    ELSE WithMatchType(modifier_by_product[p], "Modifier-specific rate")

\* One iteration of `for c in code`: the entries appended to results_out and
\* the rows inserted into lookup_log, as a sequence of <<entry, log row>>.
resolve_code(table, geozip, c, modifier_clean, product_clean) ==
    LET code_clean == Strip(c)
        modifier_by_product ==
            by_product(modifier_rows(table, geozip, code_clean,
                                     modifier_clean, product_clean))
        base_by_product ==
            by_product(base_rows(table, geozip, code_clean, product_clean))
        products_seen == DOMAIN base_by_product \cup DOMAIN modifier_by_product
        order == sorted_products(products_seen)
    IN  IF products_seen = {}
        THEN << <<Placeholder(code_clean, product_clean),
                  LogEntry(geozip, code_clean, modifier_clean, product_clean,
                           "No match found", 0)>> >>
        ELSE [i \in DOMAIN order |->
                LET row == select_row(order[i], modifier_clean,
                                      modifier_by_product, base_by_product)
                IN <<row,
                     LogEntry(geozip, code_clean, modifier_clean,
                              Some(row.product), row.match_type, 1)>>]

\* `for c in code`, in order
RECURSIVE resolve_all(_, _, _, _, _)
resolve_all(table, geozip, code, modifier_clean, product_clean) ==
    IF code = <<>> THEN <<>>
    ELSE resolve_code(table, geozip, Head(code), modifier_clean, product_clean)
            \o resolve_all(table, geozip, Tail(code), modifier_clean,
                           product_clean)

Firsts(pairs) == [i \in DOMAIN pairs |-> pairs[i][1]]
Seconds(pairs) == [i \in DOMAIN pairs |-> pairs[i][2]]

\* get_connection raises when the database file is missing
GetConnectionRaises == ~dbFile
\* ensure_log_table: CREATE TABLE IF NOT EXISTS writes only if the table is missing
EnsureLogTableRaises == ~hasLog /\ readOnly
\* a SELECT on allowed_amounts raises when the table is missing; an INSERT
\* into lookup_log raises when the file cannot be written
TryBlockRaises == ~hasRates \/ readOnly

Ok200(body) == [status |-> 200, body |-> body]
Err500 == [status |-> 500, body |-> <<>>]

\* GET /lookup
Lookup(req) ==
    /\ request = None
    /\ request' = Some(req)
    /\ UNCHANGED <<dbFile, readOnly, hasRates, allowed_amounts>>
    /\ UNCHANGED buildVars
    /\ UNCHANGED normVars
    /\ IF GetConnectionRaises
       THEN /\ response' = Some(Err500)
            /\ connLookup' = "none"
            /\ UNCHANGED <<hasLog, lookup_log>>
       ELSE IF EnsureLogTableRaises
       THEN \* raised before the try block: conn.close() is not reached
            /\ response' = Some(Err500)
            /\ connLookup' = "open"
            /\ UNCHANGED <<hasLog, lookup_log>>
       ELSE IF TryBlockRaises
       THEN \* the first statement that touches the store raises; finally closes
            /\ response' = Some(Err500)
            /\ connLookup' = "closed"
            /\ hasLog' = TRUE
            /\ UNCHANGED lookup_log
       ELSE \E out \in { resolve_all(allowed_amounts, req.geozip, req.code,
                                     StripOrNone(req.modifier),
                                     StripOrNone(req.product)) } :
               /\ response' = Some(Ok200(Firsts(out)))
               /\ lookup_log' = lookup_log \o Seconds(out)
               /\ hasLog' = TRUE
               /\ connLookup' = "closed"

PriorLog ==
    << LogEntry(75002, T_99214, None, None, "No match found", 0) >>

Init ==
    /\ dbFile \in BOOLEAN
    /\ readOnly \in BOOLEAN
    /\ hasRates \in BOOLEAN
    /\ hasLog \in BOOLEAN
    /\ allowed_amounts \in Tables
    /\ lookup_log = IF hasLog THEN PriorLog ELSE <<>>
    /\ ~dbFile => ~hasRates /\ ~hasLog /\ ~readOnly
    /\ ~hasRates => allowed_amounts = <<>>
    /\ readOnly => Len(allowed_amounts) <= 1
    /\ request = None
    /\ response = None
    /\ connLookup = "none"
    /\ sources = <<>>
    /\ buildStatus = "idle"
    /\ connBuild = "none"
    /\ builds = 0
    /\ cellIn = None
    /\ cellOut = None

Next == \E req \in Requests : Lookup(req)

Spec == Init /\ [][Next]_vars

(***************************************************************************)
(* Ingestion (scripts/excel_to_sqlite.py)                                  *)
(***************************************************************************)
REQUIRED_COLS == {"geozip", "code", "product"}
DESC_ALIASES == <<"description", "full_description", "procedure_description">>

Digit == <<"0", "1", "2", "3", "4", "5", "6", "7", "8", "9">>
UpperCase == <<"A", "B", "C", "D", "E", "F", "G", "H", "I", "J", "K", "L", "M",
               "N", "O", "P", "Q", "R", "S", "T", "U", "V", "W", "X", "Y", "Z">>
LowerCase == <<"a", "b", "c", "d", "e", "f", "g", "h", "i", "j", "k", "l", "m",
               "n", "o", "p", "q", "r", "s", "t", "u", "v", "w", "x", "y", "z">>

\* str(n) of a whole number n >= 0
RECURSIVE Digits(_)
Digits(n) ==
    IF n < 10 THEN <<Digit[n + 1]>>
    ELSE Digits(n \div 10) \o <<Digit[(n % 10) + 1]>>

IsDigit(c) == \E d \in 1..10 : Digit[d] = c
DigitValue(c) == (CHOOSE d \in 1..10 : Digit[d] = c) - 1

RECURSIVE ParseDigits(_)
ParseDigits(s) ==
    IF s = <<>> THEN 0
    ELSE 10 * ParseDigits(SubSeq(s, 1, Len(s) - 1)) + DigitValue(s[Len(s)])

\* .astype(str) of a cell: 99213.0 reads "99213.0", the empty cell "nan"
astype_str(cell) ==
    CASE cell.k = "str" -> cell.s
      [] cell.k = "int" -> Digits(cell.n)
      [] cell.k = "float" -> Digits(cell.n) \o <<".", "0">>
      [] cell.k = "nan" -> <<"n", "a", "n">>

\* pd.to_numeric(errors="coerce") then astype(int), for the cells of the
\* model: a number is kept, text made of digits is parsed, anything else is
\* NaN (None here)
to_numeric(cell) ==
    CASE cell.k = "int" -> Some(cell.n)
      [] cell.k = "float" -> Some(cell.n)
      [] cell.k = "nan" -> None
      [] cell.k = "str" ->
            IF cell.s # <<>> /\ \A i \in DOMAIN cell.s : IsDigit(cell.s[i])
            THEN Some(ParseDigits(cell.s)) ELSE None

\* the rule left out: the text unchanged
strip_dot_zero_omitted(s) == s

\* .str.replace(r"\.0$", "", regex=True): one trailing ".0" is removed
strip_dot_zero(s) ==
    IF Len(s) >= 2 /\ s[Len(s) - 1] = "." /\ s[Len(s)] = "0"
    THEN SubSeq(s, 1, Len(s) - 2) ELSE s

\* the value normalize_code gives one cell
code_value(cell) == strip_dot_zero(Strip(astype_str(cell)))

\* the value normalize_modifier gives one cell
modifier_value(cell) ==
    LET t == Strip(astype_str(cell))
    IN IF t \in { <<>>, <<"n", "a", "n">>, <<"N", "a", "N">>,
                  <<"N", "o", "n", "e">> }
       THEN None ELSE Some(t)

\* the value normalize_product gives one cell
product_value(cell) == Strip(astype_str(cell))

lower(c) ==
    IF \E i \in 1..26 : UpperCase[i] = c
    THEN LowerCase[CHOOSE i \in 1..26 : UpperCase[i] = c] ELSE c

\* str.replace(old, new) for a one-character old
RECURSIVE replace_char(_, _, _)
replace_char(s, old, new) ==
    IF s = <<>> THEN <<>>
    ELSE (IF Head(s) = old THEN new ELSE <<Head(s)>>)
            \o replace_char(Tail(s), old, new)

\* one header through normalize_columns
normalize_header(h) ==
    LET stripped == Strip(h)
        lowered == [i \in DOMAIN stripped |-> lower(stripped[i])]
    IN replace_char(replace_char(lowered, " ", <<"_">>), "%", <<"t", "h">>)

\* Column names are text; the model names the columns it knows by a string,
\* so that a row is a record.
ColumnNames ==
    { << <<"g", "e", "o", "z", "i", "p">>, "geozip" >>,
      << <<"c", "o", "d", "e">>, "code" >>,
      << <<"m", "o", "d", "i", "f", "i", "e", "r">>, "modifier" >>,
      << <<"p", "r", "o", "d", "u", "c", "t">>, "product" >>,
      << <<"d", "e", "s", "c", "r", "i", "p", "t", "i", "o", "n">>, "description" >>,
      << <<"f", "u", "l", "l", "_", "d", "e", "s", "c", "r", "i", "p", "t", "i", "o", "n">>,
         "full_description" >>,
      << <<"8", "0", "t", "h">>, "80th" >> }

ColumnKey(name) ==
    IF \E cn \in ColumnNames : cn[1] = name
    THEN (CHOOSE cn \in ColumnNames : cn[1] = name)[2]
    ELSE "unnamed"

\* The headers the source sheets of the model carry
H_GeoZip == <<"G", "e", "o", "Z", "i", "p">>
H_Code == <<" ", "C", "O", "D", "E">>
H_Modifier == <<"M", "o", "d", "i", "f", "i", "e", "r", " ">>
H_Product == <<"P", "r", "o", "d", "u", "c", "t">>
H_Description == <<"D", "e", "s", "c", "r", "i", "p", "t", "i", "o", "n">>
H_FullDescription ==
    <<"F", "u", "l", "l", " ", "D", "e", "s", "c", "r", "i", "p", "t", "i", "o", "n">>
H_80 == <<"8", "0", "%">>

Headers ==
    { H_GeoZip, H_Code, H_Modifier, H_Product, H_Description,
      H_FullDescription, H_80 }

\* df.columns after normalize_columns, tabulated over the headers
header_key == [h \in Headers |-> ColumnKey(normalize_header(h))]

\* pd.read_excel then normalize_columns: the frame, its rows keyed by the
\* normalized column names
normalize_columns(file) ==
    LET cols == [i \in DOMAIN file.headers |-> header_key[file.headers[i]]]
        colset == { cols[i] : i \in DOMAIN cols }
    IN [columns |-> colset,
        rows |-> [k \in DOMAIN file.data |->
                    [c \in colset |->
                        file.data[k][CHOOSE i \in DOMAIN cols : cols[i] = c]]]]

\* validate_required raises when this set is not empty
missing_required(df) == REQUIRED_COLS \ df.columns

\* df[name] = value
set_column(df, name, value) ==
    [columns |-> df.columns \cup {name},
     rows |-> [k \in DOMAIN df.rows |->
                [c \in df.columns \cup {name} |->
                    IF c = name THEN value ELSE df.rows[k][c]]]]

\* df.rename(columns={old: new})
rename_column(df, old, new) ==
    [columns |-> (df.columns \ {old}) \cup {new},
     rows |-> [k \in DOMAIN df.rows |->
                [c \in (df.columns \ {old}) \cup {new} |->
                    IF c = new THEN df.rows[k][old] ELSE df.rows[k][c]]]]

normalize_description(df) ==
    IF \E i \in DOMAIN DESC_ALIASES : DESC_ALIASES[i] \in df.columns
    THEN LET first == CHOOSE i \in DOMAIN DESC_ALIASES :
                          /\ DESC_ALIASES[i] \in df.columns
                          /\ \A j \in 1..(i - 1) : DESC_ALIASES[j] \notin df.columns
         IN IF DESC_ALIASES[first] # "description"
            THEN rename_column(df, DESC_ALIASES[first], "description")
            ELSE df
    ELSE set_column(df, "description", TextCell(T_empty))

normalize_code(df) ==
    [df EXCEPT !.rows = [k \in DOMAIN @ |-> [@[k] EXCEPT !.code = code_value(@)]]]

normalize_geozip(df) ==
    LET Parses(r) == to_numeric(r.geozip) # None
        kept == SelectSeq(df.rows, Parses)
    IN [df EXCEPT !.rows =
            [k \in DOMAIN kept |-> [kept[k] EXCEPT !.geozip = to_numeric(@)[1]]]]

normalize_modifier(df) ==
    IF "modifier" \notin df.columns THEN set_column(df, "modifier", None)
    ELSE [df EXCEPT !.rows =
            [k \in DOMAIN @ |-> [@[k] EXCEPT !.modifier = modifier_value(@)]]]

normalize_product(df) ==
    [df EXCEPT !.rows = [k \in DOMAIN @ |-> [@[k] EXCEPT !.product = product_value(@)]]]

\* the table not dropped at the start of the build
drop_table_omitted(table) == table

\* DROP TABLE IF EXISTS allowed_amounts
drop_table(table) == <<>>

\* sorted(SOURCE_DIR.glob("*.xlsx")): the files carry these names, in order
FileNames == <<"a.xlsx", "b.xlsx", "c.xlsx", "d.xlsx">>

\* `for file_path in excel_files`, from file i on, with the table as it is:
\* the table when the loop ends, and whether validate_required raised
RECURSIVE load_files(_, _, _)
load_files(files, i, table) ==
    IF i > Len(files)
    THEN [raised |-> FALSE, created |-> i > 1, rows |-> table]
    ELSE LET df == normalize_columns(files[i])
         IN IF missing_required(df) # {}
            THEN [raised |-> TRUE, created |-> i > 1, rows |-> table]
            ELSE LET out ==
                        set_column(
                            normalize_product(
                                normalize_modifier(
                                    normalize_geozip(
                                        normalize_code(
                                            normalize_description(df))))),
                            "source_file", FileNames[i])
                 IN load_files(files, i + 1, table \o out.rows)

\* build_database
BuildDatabase ==
    /\ builds < MaxBuilds
    /\ builds' = builds + 1
    /\ UNCHANGED <<readOnly, hasLog, lookup_log, sources>>
    /\ UNCHANGED lookupVars
    /\ UNCHANGED normVars
    /\ IF sources = <<>>
       THEN \* raised before sqlite3.connect
            /\ buildStatus' = "raised"
            /\ connBuild' = "none"
            /\ UNCHANGED <<dbFile, hasRates, allowed_amounts>>
       ELSE \E out \in { load_files(sources, 1, drop_table(allowed_amounts)) } :
               /\ dbFile' = TRUE
               /\ allowed_amounts' = out.rows
               /\ hasRates' = out.created
               /\ buildStatus' = IF out.raised THEN "raised" ELSE "done"
               \* conn.close() is the last statement of the function
               /\ connBuild' = IF out.raised THEN "open" ELSE "closed"

(***************************************************************************)
(* Source files of the ingestion model                                     *)
(***************************************************************************)
\* A layout: the headers of a sheet and, for each, the field of a source
\* record that fills the column.
Layouts ==
    { << <<H_GeoZip, "geozip">>, <<H_Code, "code">>, <<H_Modifier, "modifier">>,
         <<H_Product, "product">>, <<H_Description, "description">>,
         <<H_80, "p80">> >>,
      << <<H_Product, "product">>, <<H_Code, "code">>, <<H_GeoZip, "geozip">>,
         <<H_FullDescription, "description">>, <<H_80, "p80">> >>,
      << <<H_GeoZip, "geozip">>, <<H_Code, "code">>, <<H_Modifier, "modifier">>,
         <<H_Description, "description">>, <<H_80, "p80">> >> }

\* Source records, each with the key the loaded row is expected to carry
\* (None: the row is expected to be dropped).
SourceRecords ==
    { [geozip |-> FloatCell(75001), code |-> FloatCell(99213),
       modifier |-> NaNCell, product |-> TextCell(T_PPO),
       description |-> TextCell(<<"E", "M">>), p80 |-> FloatCell(120),
       expect |-> Some([geozip |-> 75001, code |-> T_99213,
                        modifier |-> None, product |-> T_PPO])],
      [geozip |-> TextCell(<<"7", "5", "0", "0", "1">>),
       code |-> TextCell(<<" ">> \o T_99213),
       modifier |-> TextCell(<<" ">> \o T_25 \o <<" ">>),
       product |-> TextCell(T_PPO \o <<" ">>),
       description |-> TextCell(<<"E", "M">>), p80 |-> FloatCell(150),
       expect |-> Some([geozip |-> 75001, code |-> T_99213,
                        modifier |-> Some(T_25), product |-> T_PPO])],
      [geozip |-> TextCell(<<"N", "A">>), code |-> IntCell(99214),
       modifier |-> NaNCell, product |-> TextCell(T_HMO),
       description |-> TextCell(<<"E", "M">>), p80 |-> FloatCell(120),
       expect |-> None] }

HasModifierColumn(layout) == \E i \in DOMAIN layout : layout[i][2] = "modifier"

\* The sheet of a layout and a sequence of records: headers, cells, and the
\* expected keys of its rows (which the build does not read).
Sheet(layout, recs) ==
    [headers |-> [i \in DOMAIN layout |-> layout[i][1]],
     data |-> [k \in DOMAIN recs |->
                 [i \in DOMAIN layout |-> recs[k][layout[i][2]]]],
     expect |-> [k \in DOMAIN recs |->
                   IF recs[k].expect = None THEN None
                   ELSE Some([recs[k].expect[1] EXCEPT !.modifier =
                                IF HasModifierColumn(layout) THEN @ ELSE None])]]

Sheets ==
    { Sheet(layout, recs) :
        layout \in Layouts, recs \in SeqsUpTo(SourceRecords, MaxFileRows) }

OldRow == [RateRow(75002, T_99214, None, T_HMO, FloatCell(120))
              EXCEPT !.source_file = "old.xlsx"]

InitBuild ==
    /\ sources \in SeqsUpTo(Sheets, MaxFiles)
    /\ \/ dbFile = FALSE /\ hasRates = FALSE /\ allowed_amounts = <<>>
       \/ dbFile = TRUE /\ hasRates = TRUE /\ allowed_amounts = <<OldRow>>
    /\ readOnly = FALSE
    /\ hasLog = FALSE
    /\ lookup_log = <<>>
    /\ request = None
    /\ response = None
    /\ connLookup = "none"
    /\ buildStatus = "idle"
    /\ connBuild = "none"
    /\ builds = 0
    /\ cellIn = None
    /\ cellOut = None

NextBuild == BuildDatabase

SpecBuild == InitBuild /\ [][NextBuild]_vars

(***************************************************************************)
(* The normalizer on one row's code and modifier cells                     *)
(***************************************************************************)
CodeAlphabet == {" ", ".", "0", "9"}
CodeCells ==
    { TextCell(s) : s \in SeqsUpTo(CodeAlphabet, MaxCellLen) }
        \cup { FloatCell(99213), IntCell(99213), NaNCell }
ModifierCells ==
    { TextCell(s) :
        s \in { <<>>, <<" ">>, <<"n", "a", "n">>, <<" ", "n", "a", "n", " ">>,
                <<"N", "a", "N">>, <<"N", "o", "n", "e">>, <<"n", "o", "n", "e">>,
                <<"N", "A", "N">>, T_25, <<" ">> \o T_25, T_TC \o <<" ">> } }
        \cup { FloatCell(25), NaNCell }

\* normalize_code and normalize_modifier on the row
NormalizeRow ==
    /\ cellIn # None
    /\ cellOut = None
    /\ cellOut' = Some([code |-> code_value(cellIn[1].code),
                        modifier |-> modifier_value(cellIn[1].modifier)])
    /\ UNCHANGED <<cellIn>>
    /\ UNCHANGED storeVars
    /\ UNCHANGED lookupVars
    /\ UNCHANGED buildVars

InitNorm ==
    /\ cellIn \in { Some([code |-> c, modifier |-> m]) :
                      c \in CodeCells, m \in ModifierCells }
    /\ cellOut = None
    /\ dbFile = FALSE
    /\ readOnly = FALSE
    /\ hasRates = FALSE
    /\ allowed_amounts = <<>>
    /\ hasLog = FALSE
    /\ lookup_log = <<>>
    /\ request = None
    /\ response = None
    /\ connLookup = "none"
    /\ sources = <<>>
    /\ buildStatus = "idle"
    /\ connBuild = "none"
    /\ builds = 0

NextNorm == NormalizeRow

SpecNorm == InitNorm /\ [][NextNorm]_vars

(***************************************************************************)
(* Vocabulary of the properties                                            *)
(***************************************************************************)
Req == request[1]
Body == response[1].body
Served == request # None
Served200 == Served /\ response[1].status = 200

\* the store can be reached: the file exists, holds allowed_amounts and can
\* be written (the audit log is written on every request)
StoreReachable == dbFile /\ hasRates /\ ~readOnly

\* s without its leading and trailing spaces: from its first character that
\* is not a space to its last
Trim(s) ==
    LET NonSpace == { k \in 1..Len(s) : s[k] # " " }
        first == CHOOSE k \in NonSpace : \A l \in NonSpace : k <= l
        last == CHOOSE k \in NonSpace : \A l \in NonSpace : l <= k
    IN IF NonSpace = {} THEN <<>> ELSE SubSeq(s, first, last)

\* the request's modifier and product filter as the LookupKey has them:
\* trimmed, empty taken as absent
KeyOf(x) == IF x = None \/ Trim(x[1]) = <<>> THEN None ELSE Some(Trim(x[1]))
ReqModifier == KeyOf(Req.modifier)
ReqProduct == KeyOf(Req.product)

IsPlaceholder(e) == e.match_type = "No match found"

\* how many times the request names code c
Mult(c) == Cardinality({ i \in DOMAIN Req.code : Trim(Req.code[i]) = c })

\* the positions of the response that answer code c (and product p)
ForCode(c) == { j \in DOMAIN Body : Body[j].code = c }
ForCodeProduct(c, p) == { j \in ForCode(c) : Body[j].product = p }

\* the stored row an entry was made from
RowOf(e) == [f \in DOMAIN e \ {"match_type"} |-> e[f]]

StoredRows == { allowed_amounts[i] : i \in DOMAIN allowed_amounts }
IsBase(r) == r.modifier = None \/ r.modifier = Some(T_empty)
BaseRowsFor(g, c, p) ==
    { r \in StoredRows : r.geozip = g /\ r.code = c /\ r.product = p /\ IsBase(r) }
ModifierRowsFor(g, c, p, m) ==
    { r \in StoredRows :
        r.geozip = g /\ r.code = c /\ r.product = p /\ r.modifier = Some(m) }
InScope(p) == ReqProduct = None \/ ReqProduct = Some(p)
StoredProducts == { r.product : r \in StoredRows }

PlaceholderShape(e, c) ==
    /\ DOMAIN e = {"code", "product", "description", "match_type"}
                      \cup PercentileCols
    /\ e.code = c
    /\ e.product = (IF Req.product = None THEN T_empty ELSE Trim(Req.product[1]))
    /\ e.description = TextCell(<<>>)
    /\ e.match_type = "No match found"
    /\ \A col \in PercentileCols : e[col] = TextCell(<<>>)

(***************************************************************************)
(* C1: with the store reachable, every lookup returns normally, and each   *)
(* requested code occurrence is answered either by exactly one placeholder *)
(* of the fixed shape or by at least one real match; the response is at    *)
(* least as long as the code list and no code is dropped.                  *)
(***************************************************************************)
C1_EveryCodeAnswered ==
    (Served /\ StoreReachable) =>
        /\ response[1].status = 200
        /\ Len(Body) >= Len(Req.code)
        /\ \A j \in DOMAIN Body :
              \E i \in DOMAIN Req.code : Body[j].code = Trim(Req.code[i])
        /\ \A i \in DOMAIN Req.code :
              LET c == Trim(Req.code[i])
                  E == ForCode(c)
                  P == { j \in E : IsPlaceholder(Body[j]) }
              IN \/ /\ P = E
                    /\ Cardinality(E) = Mult(c)
                    /\ \A j \in E : PlaceholderShape(Body[j], c)
                 \/ /\ P = {}
                    /\ Cardinality(E) >= Mult(c)

\* a two-code request answered by a real match and a placeholder
C1_Witness ==
    /\ Served200
    /\ Len(Req.code) = 2
    /\ Req.code[2] # Trim(Req.code[2])
    /\ \E j \in DOMAIN Body : IsPlaceholder(Body[j])
    /\ \E j \in DOMAIN Body : ~IsPlaceholder(Body[j])

(***************************************************************************)
(* C2: a lookup with modifier m, for a (geozip, code, product) that has    *)
(* both a base row and a row with modifier m, answers that (code, product) *)
(* with exactly one entry per code occurrence, tagged "Modifier-specific   *)
(* rate" and carrying the modifier row.                                    *)
(***************************************************************************)
C2_ModifierRowWins ==
    (Served200 /\ ReqModifier # None) =>
        \A i \in DOMAIN Req.code : \A p \in StoredProducts :
            LET c == Trim(Req.code[i])
                m == ReqModifier[1]
            IN (/\ InScope(p)
                /\ BaseRowsFor(Req.geozip, c, p) # {}
                /\ ModifierRowsFor(Req.geozip, c, p, m) # {})
               => /\ Cardinality(ForCodeProduct(c, p)) = Mult(c)
                  /\ \A j \in ForCodeProduct(c, p) :
                        /\ Body[j].match_type = "Modifier-specific rate"
                        /\ RowOf(Body[j]) \in ModifierRowsFor(Req.geozip, c, p, m)

(***************************************************************************)
(* C3: where a base row exists for (code, product) and no modifier row is  *)
(* chosen, the base row is returned, tagged "Base rate (no modifier)" when *)
(* the request has no modifier and "Base rate (modifier not on file)" when *)
(* the requested modifier has no row for that product.                     *)
(***************************************************************************)
C3_BaseRowFallback ==
    Served200 =>
        \A i \in DOMAIN Req.code : \A p \in StoredProducts :
            LET c == Trim(Req.code[i])
                tag == IF ReqModifier = None THEN "Base rate (no modifier)"
                       ELSE "Base rate (modifier not on file)"
            IN (/\ InScope(p)
                /\ BaseRowsFor(Req.geozip, c, p) # {}
                /\ ReqModifier # None =>
                       ModifierRowsFor(Req.geozip, c, p, ReqModifier[1]) = {})
               => /\ Cardinality(ForCodeProduct(c, p)) = Mult(c)
                  /\ \A j \in ForCodeProduct(c, p) :
                        /\ Body[j].match_type = tag
                        /\ RowOf(Body[j]) \in BaseRowsFor(Req.geozip, c, p)

\* the store holds only (75001, "99213", NULL, "PPO", 80th = 120.00) and the
\* request asks for modifier 25
C3_Witness ==
    /\ Served200
    /\ allowed_amounts = << RateRow(75001, T_99213, None, T_PPO, FloatCell(120)) >>
    /\ Req.geozip = 75001
    /\ Req.code = << T_99213 >>
    /\ ReqModifier = Some(T_25)
    /\ Len(Body) = 1
    /\ Body[1].match_type = "Base rate (modifier not on file)"
    /\ Body[1]["80th"] = FloatCell(120)

(***************************************************************************)
(* C4: a lookup that returns normally appends to the audit log exactly one *)
(* row per entry of its response, in the same order, with the entry's      *)
(* geozip, code and match_type and success 1 for a match, 0 for a          *)
(* placeholder; rows already in the log are never changed or removed.      *)
(***************************************************************************)
C4_LogFollowsResponse ==
    [][ /\ Len(lookup_log') >= Len(lookup_log)
        /\ SubSeq(lookup_log', 1, Len(lookup_log)) = lookup_log
        /\ (response' # None /\ response'[1].status = 200) =>
              LET body == response'[1].body
                  n == Len(lookup_log)
              IN /\ Len(lookup_log') = n + Len(body)
                 /\ \A k \in DOMAIN body :
                       /\ lookup_log'[n + k].geozip = request'[1].geozip
                       /\ lookup_log'[n + k].code = body[k].code
                       /\ lookup_log'[n + k].match_type = body[k].match_type
                       /\ lookup_log'[n + k].success =
                              (IF IsPlaceholder(body[k]) THEN 0 ELSE 1)
      ]_vars

\* a log that held a row before now also holds a success and a failure
C4_Witness ==
    /\ Served200
    /\ Len(lookup_log) = 1 + Len(Body)
    /\ lookup_log[1] = PriorLog[1]
    /\ \E k \in DOMAIN lookup_log : k > 1 /\ lookup_log[k].success = 1
    /\ \E k \in DOMAIN lookup_log : k > 1 /\ lookup_log[k].success = 0

(***************************************************************************)
(* C5: the response is the per-code outputs in the caller's code order,    *)
(* duplicates included, and within one code the entries are in ascending   *)
(* order of product text, the empty product first.                         *)
(***************************************************************************)
\* position j starts the output of a new code occurrence: the code changes,
\* or the product does not ascend, or a placeholder stands alone
Breaks(j) ==
    \/ Body[j].code # Body[j - 1].code
    \/ IsPlaceholder(Body[j])
    \/ IsPlaceholder(Body[j - 1])
    \/ ~StrLess(Body[j - 1].product, Body[j].product)

\* the code occurrence that position j belongs to
RunOf(j) == 1 + Cardinality({ k \in 2..j : Breaks(k) })

C5_OrderPreserved ==
    Served200 =>
        /\ Body # <<>>
        /\ RunOf(Len(Body)) = Len(Req.code)
        /\ \A j \in DOMAIN Body : Body[j].code = Trim(Req.code[RunOf(j)])

\* products "PPO" and "HMO" (and the empty product) for one code, no filter
C5_Witness ==
    /\ Served200
    /\ Req.product = None
    /\ Len(Req.code) = 2
    /\ Req.code[1] = Req.code[2]
    /\ Len(Body) = 4
    /\ Body[1].product = T_HMO /\ Body[2].product = T_PPO
    /\ Body[3].product = T_HMO /\ Body[4].product = T_PPO

(***************************************************************************)
(* C10: with a product filter every real match has the filter's product;   *)
(* without one the products answered for a code are all the products the   *)
(* store holds for (geozip, code) in base rows and in rows of the          *)
(* requested modifier.                                                     *)
(***************************************************************************)
C10_CandidateProducts ==
    Served200 =>
        /\ ReqProduct # None =>
              \A j \in DOMAIN Body :
                  ~IsPlaceholder(Body[j]) => Body[j].product = ReqProduct[1]
        /\ ReqProduct = None =>
              \A i \in DOMAIN Req.code :
                  LET c == Trim(Req.code[i])
                  IN { Body[j].product :
                          j \in { k \in ForCode(c) : ~IsPlaceholder(Body[k]) } }
                     = { p \in StoredProducts :
                           \/ BaseRowsFor(Req.geozip, c, p) # {}
                           \/ /\ ReqModifier # None
                              /\ ModifierRowsFor(Req.geozip, c, p,
                                                 ReqModifier[1]) # {} }

(***************************************************************************)
(* C6: every connection an operation opens is released on every exit path  *)
(* of that operation, exceptions included: no finished lookup and no       *)
(* finished or aborted build leaves its connection open.                   *)
(***************************************************************************)
C6_ConnectionsReleased ==
    /\ buildStatus \in {"done", "raised"} => connBuild # "open"
    /\ Served => connLookup # "open"

(***************************************************************************)
(* C7: a build that completes leaves in allowed_amounts exactly the        *)
(* normalized rows of the source files, in file order, and nothing of the  *)
(* prior content; a second build of the same files leaves the same rows.   *)
(***************************************************************************)
Kept(e) == e # None

\* the keys the rows of files i.. are expected to load with, each with the
\* name of its file
RECURSIVE ExpectedRows(_, _)
ExpectedRows(files, i) ==
    IF i > Len(files) THEN <<>>
    ELSE LET kept == SelectSeq(files[i].expect, Kept)
         IN [k \in DOMAIN kept |-> [key |-> kept[k][1], file |-> FileNames[i]]]
                \o ExpectedRows(files, i + 1)

KeyOfRow(r) ==
    [geozip |-> r.geozip, code |-> r.code, modifier |-> r.modifier,
     product |-> r.product]

LoadedAsExpected ==
    LET exp == ExpectedRows(sources, 1)
    IN /\ Len(allowed_amounts) = Len(exp)
       /\ \A k \in DOMAIN exp :
             /\ KeyOfRow(allowed_amounts[k]) = exp[k].key
             /\ allowed_amounts[k].source_file = exp[k].file

C7_FullReplaceIdempotent ==
    /\ [](buildStatus = "done" => LoadedAsExpected)
    /\ [][(buildStatus = "done" /\ buildStatus' = "done")
            => allowed_amounts' = allowed_amounts]_vars

\* two files built twice, one of their rows dropped for its geozip
C7_Witness ==
    /\ buildStatus = "done"
    /\ builds = 2
    /\ Len(sources) = 2
    /\ \E i \in DOMAIN sources : \E k \in DOMAIN sources[i].expect :
          sources[i].expect[k] = None
    /\ allowed_amounts # <<>>

(***************************************************************************)
(* C8: the row the normalizer loads has a code that does not end in ".0"   *)
(* and a modifier that is never the text "", "nan", "NaN" or "None".       *)
(***************************************************************************)
EndsWith(s, suffix) ==
    /\ Len(s) >= Len(suffix)
    /\ SubSeq(s, Len(s) - Len(suffix) + 1, Len(s)) = suffix

NullTexts ==
    { <<>>, <<"n", "a", "n">>, <<"N", "a", "N">>, <<"N", "o", "n", "e">> }

ModifierNeverNullText ==
    cellOut[1].modifier = None \/ cellOut[1].modifier[1] \notin NullTexts

C8_NoDotZeroNoNullText ==
    cellOut # None =>
        /\ ~EndsWith(cellOut[1].code, <<".", "0">>)
        /\ ModifierNeverNullText

\* C8 as amended: the code ends in ".0" only when the source text, trimmed,
\* ends in ".0.0" (one trailing ".0" is removed, not all of them)
C8_OneDotZeroRemoved ==
    cellOut # None =>
        /\ EndsWith(cellOut[1].code, <<".", "0">>) =>
              /\ cellIn[1].code.k = "str"
              /\ EndsWith(Trim(cellIn[1].code.s), <<".", "0", ".", "0">>)
        /\ ModifierNeverNullText

\* " 9.0 " loads as "9", and " nan " as no modifier
C8_Witness ==
    /\ cellOut # None
    /\ cellIn[1].code = TextCell(<<" ", "9", ".", "0", " ">>)
    /\ cellOut[1].code = <<"9">>
    /\ cellIn[1].modifier = TextCell(<<" ", "n", "a", "n", " ">>)
    /\ cellOut[1].modifier = None

(***************************************************************************)
(* C9: in the store a build leaves, each (geozip, code, product) has at    *)
(* most one row with no modifier and at most one row per modifier value.   *)
(***************************************************************************)
SameRate(r1, r2) ==
    /\ r1.geozip = r2.geozip
    /\ r1.code = r2.code
    /\ r1.product = r2.product
    /\ \/ IsBase(r1) /\ IsBase(r2)
       \/ ~IsBase(r1) /\ r1.modifier = r2.modifier

C9_OneRowPerKey ==
    buildStatus = "done" =>
        \A i, j \in DOMAIN allowed_amounts :
            i < j => ~SameRate(allowed_amounts[i], allowed_amounts[j])

====
